---- MODULE Spec2Model ----
(***************************************************************************)
(* A model of the point-cloud library of elliotbailey/Digital              *)
(* (src/modules/point_tools.py, and the earlier src/point_tools/           *)
(* point_tools.py), of its delimited-text route, of its distance function  *)
(* and of the capture loop of src/modules/point_tool_testing.py.           *)
(*                                                                         *)
(* Number domain.  Coordinates are floats.  The model computes in exact    *)
(* real arithmetic on the numbers the operations can produce from          *)
(* integer-valued inputs: a coordinate is n / sqrt(r) (n an integer, r a   *)
(* positive integer), a distance is sqrt(s / r), and the IEEE-754          *)
(* specials nan, +inf, -inf that numpy's division by zero produces are     *)
(* values of their own.  Rounding is not modelled.                         *)
(***************************************************************************)
EXTENDS Integers, Sequences, FiniteSets, TLC

(***************************************************************************)
(* Bounds of the model.                                                    *)
(***************************************************************************)
MaxDim == 3
MaxCount == 3
MaxRawLen == 6
MaxNormalise == 2

\* The coordinate values raw inputs are drawn from (as floats).
Coords == {-1, 0, 2}

\* The concrete scenarios of the specification's section 8, as raw inputs.
Scenarios == { <<0, 0, 0, 1, 0, 0, 0, 1, 0>>, <<0, 0, 0, 2, 0, 0, 0, 0, 0>> }

\* Origin.__init__'s default dimension, which is also the dimension of the
\* Origin() that distance's default argument is bound to once.
DefaultDimension == 3

(***************************************************************************)
(* Floats.                                                                 *)
(***************************************************************************)
\* The finite float n / sqrt(r).
Fin(n, r) == [k |-> "fin", n |-> n, r |-> r]
NaN == [k |-> "nan", n |-> 0, r |-> 1]
\* +inf (s = 1) and -inf (s = -1).
Inf(s) == [k |-> "inf", n |-> s, r |-> 1]
\* The float of an integer value.
Float(i) == Fin(i, 1)

Sign(n) == IF n > 0 THEN 1 ELSE IF n < 0 THEN -1 ELSE 0

\* Value equality of two floats (Python's ==): nan equals nothing.
FEq(a, b) ==
    IF a.k = "nan" \/ b.k = "nan" THEN FALSE
    ELSE IF a.k = "inf" \/ b.k = "inf" THEN a.k = b.k /\ a.n = b.n
    ELSE Sign(a.n) = Sign(b.n) /\ a.n * a.n * b.r = b.n * b.n * a.r

\* Two floats denote the same IEEE value (nan is the same as nan).
FSame(a, b) == (a.k = "nan" /\ b.k = "nan") \/ FEq(a, b)

\* a - b.  Two finite operands share their radicand, or one of them is zero:
\* every subtraction of the program is between coordinates of one cloud or
\* against a zero vector.  No other case is defined.
FSub(a, b) ==
    IF a.k = "nan" \/ b.k = "nan" THEN NaN
    ELSE IF a.k = "inf" THEN (IF b.k = "inf" /\ b.n = a.n THEN NaN ELSE a)
    ELSE IF b.k = "inf" THEN Inf(-b.n)
    ELSE CASE a.r = b.r -> Fin(a.n - b.n, a.r)
           [] a.r # b.r /\ b.n = 0 -> a
           [] a.r # b.r /\ b.n # 0 /\ a.n = 0 -> Fin(-b.n, b.r)

\* A distance: sqrt(s / r), or nan, or +inf.
Dist(s, r) == [k |-> "fin", s |-> s, r |-> r]
DNaN == [k |-> "nan", s |-> 0, r |-> 1]
DInf == [k |-> "inf", s |-> 1, r |-> 1]

\* Python's x > m on two distances.
DGt(x, m) ==
    IF x.k = "nan" \/ m.k = "nan" THEN FALSE
    ELSE IF x.k = "inf" THEN m.k # "inf"
    ELSE IF m.k = "inf" THEN FALSE
    ELSE x.s * m.r > m.s * x.r

\* Two distances denote the same value.
DSame(x, m) ==
    IF x.k # "fin" \/ m.k # "fin" THEN x.k = m.k
    ELSE x.s * m.r = m.s * x.r

\* a / d for a coordinate a and a distance d (numpy division: a zero divisor
\* gives nan or an infinity, never an exception).
FDiv(a, d) ==
    IF a.k = "nan" \/ d.k = "nan" THEN NaN
    ELSE IF d.k = "inf" THEN (IF a.k = "inf" THEN NaN ELSE Fin(0, 1))
    ELSE IF a.k = "inf" THEN a
    ELSE IF d.s = 0 THEN (IF a.n = 0 THEN NaN ELSE Inf(Sign(a.n)))
    ELSE CASE (a.r * d.s) % d.r = 0 -> Fin(a.n, (a.r * d.s) \div d.r)

\* math.sqrt(sum([t ** 2 for t in terms])) for a sequence of floats.
RECURSIVE SumN2(_)
SumN2(terms) ==
    IF terms = <<>> THEN 0
    ELSE Head(terms).n * Head(terms).n + SumN2(Tail(terms))

SqrtSumSq(terms) ==
    IF \E i \in DOMAIN terms : terms[i].k = "nan" THEN DNaN
    ELSE IF \E i \in DOMAIN terms : terms[i].k = "inf" THEN DInf
    ELSE IF terms = <<>> THEN Dist(0, 1)
    ELSE CASE \A i \in DOMAIN terms : terms[i].r = terms[1].r ->
                Dist(SumN2(terms), terms[1].r)

(***************************************************************************)
(* Point.                                                                  *)
(***************************************************************************)
Point(coordinates) ==
    [coordinates |-> coordinates, dimension |-> Len(coordinates)]

\* Origin(dimension): the zero vector.
Origin(dimension) == Point([i \in 1 .. dimension |-> Float(0)])

\* __getitem__ for a key >= 0: the coordinate, or IndexError.
Point__getitem__(self, key) ==
    IF key > self.dimension - 1
    THEN [err |-> "IndexError", val |-> NaN]
    ELSE [err |-> "none", val |-> self.coordinates[key + 1]]

\* A subtraction with its operands exchanged.
Point__sub__swapped(self, other) ==
    IF self.dimension # other.dimension
    THEN [err |-> "ValueError", val |-> Point(<<>>)]
    ELSE [err |-> "none",
          val |-> Point([i \in 1 .. self.dimension |->
                            FSub(other.coordinates[i], self.coordinates[i])])]

Point__sub__(self, other) ==
    IF self.dimension # other.dimension
    THEN [err |-> "ValueError", val |-> Point(<<>>)]
    ELSE [err |-> "none",
          val |-> Point([i \in 1 .. self.dimension |->
                            FSub(self.coordinates[i], other.coordinates[i])])]

\* other is the float max() returned, so the isinstance check passes.
Point__truediv__(self, other) ==
    [err |-> "none",
     val |-> Point([i \in 1 .. self.dimension |->
                       FDiv(self.coordinates[i], other)])]

(***************************************************************************)
(* distance (src/modules/point_tools.py).                                  *)
(***************************************************************************)
\* The list comprehension [(point1[i] - point2[i])**2 for i in
\* range(point1.dimension)]: the first failing index raises.
distance(point1, point2) ==
    IF \E i \in 0 .. point1.dimension - 1 :
           Point__getitem__(point2, i).err # "none"
    THEN [err |-> "IndexError", val |-> DNaN]
    ELSE [err |-> "none",
          val |-> SqrtSumSq([i \in 1 .. point1.dimension |->
                     FSub(Point__getitem__(point1, i - 1).val,
                          Point__getitem__(point2, i - 1).val)])]

\* distance(point1) with the default second argument, the one Origin() built
\* when the function was defined.
distance_default(point1) == distance(point1, Origin(DefaultDimension))

(***************************************************************************)
(* distance of src/point_tools/point_tools.py: a module-level function     *)
(* with a leading parameter named self.                                    *)
(***************************************************************************)
pt_distance(self, point1, point2) ==
    IF \E i \in 0 .. point1.dimension - 1 :
           Point__getitem__(point2, i).err # "none"
    THEN [err |-> "IndexError", val |-> DNaN]
    ELSE [err |-> "none",
          val |-> SqrtSumSq([i \in 1 .. point1.dimension |->
                     FSub(Point__getitem__(point1, i - 1).val,
                          Point__getitem__(point2, i - 1).val)])]

(***************************************************************************)
(* PointCloud.                                                             *)
(***************************************************************************)
NoCloud == [points |-> <<>>, dimension |-> 0, point_count |-> 0]

\* A reshape that only refuses too few values and drops the surplus.
reshape_lenient(raw, point_count, dimension) ==
    IF Len(raw) < point_count * dimension
    THEN [err |-> "ValueError:reshape", rows |-> <<>>]
    ELSE [err |-> "none",
          rows |-> [p \in 1 .. point_count |->
                       [j \in 1 .. dimension |->
                           raw[(p - 1) * dimension + j]]]]

\* A reshape that lays the values out column by column.
reshape_column_major(raw, point_count, dimension) ==
    IF Len(raw) # point_count * dimension
    THEN [err |-> "ValueError:reshape", rows |-> <<>>]
    ELSE [err |-> "none",
          rows |-> [p \in 1 .. point_count |->
                       [j \in 1 .. dimension |->
                           raw[(j - 1) * point_count + p]]]]

\* np.array(points).reshape(point_count, dimension): row-major rows, or
\* ValueError when the sizes differ.
reshape(raw, point_count, dimension) ==
    IF Len(raw) # point_count * dimension
    THEN [err |-> "ValueError:reshape", rows |-> <<>>]
    ELSE [err |-> "none",
          rows |-> [p \in 1 .. point_count |->
                       [j \in 1 .. dimension |->
                           raw[(p - 1) * dimension + j]]]]

\* Python's max() of a non-empty list of distances: the first element, replaced
\* by each later element that compares greater.
RECURSIVE PyMaxFrom(_, _)
PyMaxFrom(m, rest) ==
    IF rest = <<>> THEN m
    ELSE PyMaxFrom(IF DGt(Head(rest), m) THEN Head(rest) ELSE m, Tail(rest))

\* A max that returns the first element.
PyMax_first(ds) == Head(ds)

PyMax(ds) == PyMaxFrom(Head(ds), Tail(ds))

\* The search range with point 0 left in.
search_range_all(points) == points

\* self.points[1:], the range normalise searches for the largest distance.
search_range(points) == SubSeq(points, 2, Len(points))

\* The points (point - origin) / max_distance for every point, in order.
rescaled(points, origin, max_distance) ==
    [i \in 1 .. Len(points) |->
        Point__truediv__(Point__sub__(points[i], origin).val, max_distance).val]

\* PointCloud.normalise: the new self.points, or the error raised before
\* self.points is assigned.
normalise(self) ==
    LET origin == self.points[1]
        ds == [i \in 1 .. Len(search_range(self.points)) |->
                  distance(search_range(self.points)[i], origin)]
    IN  IF \E i \in DOMAIN ds : ds[i].err # "none"
        THEN [err |-> "IndexError", points |-> self.points]
        ELSE IF ds = <<>>
        THEN [err |-> "ValueError:max", points |-> self.points]
        ELSE [err |-> "none",
              points |-> rescaled(self.points, origin,
                                  PyMax([i \in DOMAIN ds |-> ds[i].val]))]

\* PointCloud.normalise of src/point_tools/point_tools.py: the search runs
\* over every point, and the call distance(point, origin) binds point to
\* self, origin to point1 and leaves point2 at its default.
pt_normalise(self) ==
    LET origin == self.points[1]
        ds == [i \in 1 .. Len(self.points) |->
                  pt_distance(self.points[i], origin, Origin(DefaultDimension))]
    IN  IF \E i \in DOMAIN ds : ds[i].err # "none"
        THEN [err |-> "IndexError", points |-> self.points]
        ELSE IF ds = <<>>
        THEN [err |-> "ValueError:max", points |-> self.points]
        ELSE [err |-> "none",
              points |-> rescaled(self.points, origin,
                                  PyMax([i \in DOMAIN ds |-> ds[i].val]))]

\* The cloud __init__ holds once the reshape succeeded, before normalising.
built(rows, dimension, point_count) ==
    [points |-> [p \in 1 .. Len(rows) |-> Point(rows[p])],
     dimension |-> dimension, point_count |-> point_count]

\* PointCloud.__init__: the constructed cloud, or the error it raises (and
\* then no cloud).
PointCloud__init__(points, dimension, point_count, norm) ==
    LET r == reshape(points, point_count, dimension)
        c == built(r.rows, dimension, point_count)
        n == normalise(c)
    IN  IF r.err # "none" THEN [err |-> r.err, cloud |-> NoCloud]
        ELSE IF ~norm THEN [err |-> "none", cloud |-> c]
        ELSE IF n.err # "none" THEN [err |-> n.err, cloud |-> NoCloud]
        ELSE [err |-> "none", cloud |-> [c EXCEPT !.points = n.points]]

\* PointCloud.__init__ of src/point_tools/point_tools.py.
pt_PointCloud__init__(points, dimension, point_count, norm) ==
    LET r == reshape(points, point_count, dimension)
        c == built(r.rows, dimension, point_count)
        n == pt_normalise(c)
    IN  IF r.err # "none" THEN [err |-> r.err, cloud |-> NoCloud]
        ELSE IF ~norm THEN [err |-> "none", cloud |-> c]
        ELSE IF n.err # "none" THEN [err |-> n.err, cloud |-> NoCloud]
        ELSE [err |-> "none", cloud |-> [c EXCEPT !.points = n.points]]

(***************************************************************************)
(* State.                                                                  *)
(***************************************************************************)
VARIABLES
    op,         \* the last operation on the cloud: "idle", "new", "normalise",
                \* "csv_repr", "from_csv_line"
    args,       \* the arguments of the construction
    cloud,      \* the PointCloud of src/modules, or NoCloud
    err,        \* what the last operation raised on it, or "none"
    before,     \* the points the last normalise started from
    calls,      \* the number of normalise calls made so far
    pt_cloud,   \* the PointCloud of src/point_tools built from the same input
    pt_err,     \* what the last operation raised on it, or "none"
    delimiter,  \* the delimiter of the last csv_repr
    line,       \* the text csv_repr returned, a sequence of characters
    readback,   \* what from_csv_line made of it: an error or a cloud
    dist_op,    \* the distance call made: "idle", "distance", "distance_default"
    dist_a,     \* its first argument
    dist_b,     \* its second argument (the bound default when omitted)
    dist_res,   \* what it returned or raised
    loop_pc,    \* where main() of point_tool_testing.py is
    cm_bound,   \* whether the local name cm is bound
    cap_released, \* whether cm's capture device was released
    output,     \* the landmarks of the last process_hands, or <<>> for None
    point_cloud, \* the local point_cloud, NoCloud while unbound
    keypress,   \* the key of the last waitKey: "none", or a character
    iteration   \* the number of loop iterations started

cloudVars == <<op, args, cloud, err, before, calls, pt_cloud, pt_err>>
csvVars == <<delimiter, line, readback>>
distVars == <<dist_op, dist_a, dist_b, dist_res>>
loopVars ==
    <<loop_pc, cm_bound, cap_released, output, point_cloud, keypress, iteration>>
vars == <<cloudVars, csvVars, distVars, loopVars>>

NoArgs == [raw |-> <<>>, dimension |-> 0, point_count |-> 0, normalise |-> FALSE]

RawInputs ==
    UNION {[1 .. k -> Coords] : k \in 1 .. MaxRawLen} \cup Scenarios

Floats(raw) == [i \in 1 .. Len(raw) |-> Float(raw[i])]

CloudIdle ==
    /\ op = "idle"
    /\ args = NoArgs
    /\ cloud = NoCloud
    /\ err = "none"
    /\ before = <<>>
    /\ calls = 0
    /\ pt_cloud = NoCloud
    /\ pt_err = "none"

CsvIdle ==
    /\ delimiter = <<>>
    /\ line = <<>>
    /\ readback = [err |-> "none", cloud |-> NoCloud]

DistIdle ==
    /\ dist_op = "idle"
    /\ dist_a = Point(<<>>)
    /\ dist_b = Point(<<>>)
    /\ dist_res = [err |-> "none", val |-> Dist(0, 1)]

LoopIdle ==
    /\ loop_pc = "idle"
    /\ cm_bound = FALSE
    /\ cap_released = FALSE
    /\ output = <<>>
    /\ point_cloud = NoCloud
    /\ keypress = "none"
    /\ iteration = 0

(***************************************************************************)
(* Construction and normalisation: nothing is constructed yet.             *)
(***************************************************************************)
Init == CloudIdle /\ CsvIdle /\ DistIdle /\ LoopIdle

\* PointCloud(raw, dimension, point_count, normalise), with both versions of
\* the class.
New ==
    /\ op = "idle"
    /\ \E raw \in RawInputs, d \in 1 .. MaxDim, n \in 1 .. MaxCount,
          norm \in BOOLEAN :
        LET r == PointCloud__init__(Floats(raw), d, n, norm)
            q == pt_PointCloud__init__(Floats(raw), d, n, norm)
            rs == reshape(Floats(raw), n, d)
        IN  /\ args' = [raw |-> raw, dimension |-> d, point_count |-> n,
                        normalise |-> norm]
            /\ cloud' = r.cloud
            /\ err' = r.err
            /\ pt_cloud' = q.cloud
            /\ pt_err' = q.err
            /\ before' = IF rs.err = "none"
                         THEN built(rs.rows, d, n).points ELSE <<>>
            /\ calls' = IF rs.err = "none" /\ norm THEN 1 ELSE 0
    /\ op' = "new"
    /\ UNCHANGED <<csvVars, distVars, loopVars>>

\* cloud.normalise(), on both versions of the class.
Normalise ==
    /\ op \in {"new", "normalise"}
    /\ cloud # NoCloud
    /\ calls < MaxNormalise
    /\ LET r == normalise(cloud)
           q == pt_normalise(pt_cloud)
       IN  /\ cloud' = [cloud EXCEPT !.points = r.points]
           /\ err' = r.err
           /\ IF pt_cloud # NoCloud
              THEN /\ pt_cloud' = [pt_cloud EXCEPT !.points = q.points]
                   /\ pt_err' = q.err
              ELSE UNCHANGED <<pt_cloud, pt_err>>
    /\ before' = cloud.points
    /\ calls' = calls + 1
    /\ op' = "normalise"
    /\ UNCHANGED <<args, csvVars, distVars, loopVars>>

Next == New \/ Normalise

Spec == Init /\ [][Next]_vars

(***************************************************************************)
(* Vocabulary of the properties.                                           *)
(***************************************************************************)
ShapeOK == Len(args.raw) = args.dimension * args.point_count

\* The last operation ran normalise (directly, or inside the constructor).
RanNormalise ==
    \/ op = "normalise"
    \/ op = "new" /\ args.normalise /\ ShapeOK

Finite(points) ==
    \A i \in DOMAIN points :
        \A j \in DOMAIN points[i].coordinates :
            points[i].coordinates[j].k = "fin"

SamePoint(p, q) ==
    /\ Len(p.coordinates) = Len(q.coordinates)
    /\ \A j \in DOMAIN p.coordinates :
           FSame(p.coordinates[j], q.coordinates[j])

SamePoints(ps, qs) ==
    /\ Len(ps) = Len(qs)
    /\ \A i \in DOMAIN ps : SamePoint(ps[i], qs[i])

AllIdentical(points) == \A i \in DOMAIN points : SamePoint(points[i], points[1])

IsZeroVector(p) == \A j \in DOMAIN p.coordinates : FEq(p.coordinates[j], Float(0))

\* The integer vectors of a finite cloud are its numerators; its coordinates
\* share one radicand.  The squared length of the numerator difference:
RECURSIVE SqDiff(_, _, _)
SqDiff(p, q, j) ==
    IF j = 0 THEN 0
    ELSE (p.coordinates[j].n - q.coordinates[j].n)
             * (p.coordinates[j].n - q.coordinates[j].n) + SqDiff(p, q, j - 1)

\* The largest of them from point 0 to the points after it.
MaxSq(points) ==
    LET S == {SqDiff(points[i], points[1], Len(points[1].coordinates)) :
                 i \in 2 .. Len(points)}
    IN  CHOOSE m \in S : \A x \in S : x <= m

\* The points of the cloud as constructed, before any normalise.
OriginalPoints ==
    built(reshape(Floats(args.raw), args.point_count, args.dimension).rows,
          args.dimension, args.point_count).points

PointOf(ints) == Point([j \in 1 .. Len(ints) |-> Float(ints[j])])

(***************************************************************************)
(* C1.  Construction fails with the reshape error, and yields no cloud,    *)
(* whenever the number of raw values differs from dimension * point_count, *)
(* with either value of normalise; with equal counts and normalise false   *)
(* it succeeds.                                                            *)
(***************************************************************************)
C1_ShapeMismatchFails ==
    op = "new" =>
        /\ ~ShapeOK => err = "ValueError:reshape" /\ cloud = NoCloud
        /\ ShapeOK /\ ~args.normalise =>
               /\ err = "none"
               /\ cloud # NoCloud
               /\ Len(cloud.points) = args.point_count

C1_Witness ==
    /\ op = "new"
    /\ Len(args.raw) > args.dimension * args.point_count
    /\ args.normalise
    /\ err = "ValueError:reshape"
    /\ cloud = NoCloud

\* The case of C2: a normalise just ran on a cloud of two or more points,
\* not all identical (a cloud of nan coordinates, which normalise makes of
\* identical points, counts as identical points).
C2_Case ==
    /\ RanNormalise
    /\ ShapeOK
    /\ args.point_count >= 2
    /\ ~AllIdentical(before)

(***************************************************************************)
(* C2.  After normalise on a cloud of at least two points, finite and not  *)
(* all identical, point 0 is the zero vector, the largest distance from    *)
(* point 0 to a later point is exactly 1, and point i is                   *)
(* (p_i - p_0) / max_j distance(p_j, p_0) on the coordinates before the    *)
(* call; the scaling scenario gives (0,0,0), (1,0,0), (0,0,0).             *)
(***************************************************************************)
C2_NormalisePostcondition ==
    /\ C2_Case =>
        /\ err = "none"
        /\ cloud # NoCloud
        /\ IsZeroVector(cloud.points[1])
        /\ \E i \in 2 .. Len(cloud.points) :
               DSame(distance(cloud.points[i], cloud.points[1]).val, Dist(1, 1))
        /\ \A i \in 2 .. Len(cloud.points) :
               ~DGt(distance(cloud.points[i], cloud.points[1]).val, Dist(1, 1))
        /\ \A i \in DOMAIN cloud.points :
               \A j \in 1 .. args.dimension :
                   FEq(cloud.points[i].coordinates[j],
                       Fin(before[i].coordinates[j].n - before[1].coordinates[j].n,
                           MaxSq(before)))
    /\ C2_Case /\ calls = 1 /\ args.raw = <<0, 0, 0, 2, 0, 0, 0, 0, 0>>
           /\ args.dimension = 3 =>
        SamePoints(cloud.points,
                   <<PointOf(<<0, 0, 0>>), PointOf(<<1, 0, 0>>), PointOf(<<0, 0, 0>>)>>)

C2_Witness ==
    /\ C2_Case
    /\ op = "new"
    /\ args.raw = <<0, 0, 0, 2, 0, 0, 0, 0, 0>>
    /\ args.dimension = 3
    /\ cloud.points[2].coordinates[1] = Fin(2, 4)

\* The case of C6: a normalise just ran on a cloud of one point.
C6_Case == args.point_count = 1 /\ ShapeOK /\ RanNormalise

(***************************************************************************)
(* C6.  With point_count = 1, normalise (called directly or by the         *)
(* constructor) fails or leaves the point at the zero vector, never        *)
(* completes with a non-zero, infinite or nan coordinate, and the outcome  *)
(* is the same for every point: the code's outcome is the error max()      *)
(* raises on the empty search range, with self.points not assigned.        *)
(***************************************************************************)
C6_SinglePointOutcome ==
    C6_Case =>
        /\ \/ err # "none"
           \/ /\ cloud # NoCloud
              /\ Finite(cloud.points)
              /\ IsZeroVector(cloud.points[1])
        /\ err = "ValueError:max"
        /\ op = "new" => cloud = NoCloud
        /\ op = "normalise" => cloud.points = before

C6_Witness ==
    /\ C6_Case
    /\ op = "normalise"
    /\ args.raw[1] # 0
    /\ err = "ValueError:max"

(***************************************************************************)
(* C7.  A constructed cloud, after any number of normalise calls, holds    *)
(* point_count points of dimension coordinates each, its dimension and     *)
(* point_count fields are those of the construction, before any normalise  *)
(* point i is raw[i*dimension .. i*dimension + dimension - 1], and a       *)
(* normalise makes point i from the old point i, the old point 0 and one   *)
(* scale factor common to all points.                                      *)
(***************************************************************************)
C7_StructureInvariant ==
    cloud # NoCloud =>
        /\ cloud.dimension = args.dimension
        /\ cloud.point_count = args.point_count
        /\ Len(cloud.points) = args.point_count
        /\ \A i \in DOMAIN cloud.points :
               /\ cloud.points[i].dimension = args.dimension
               /\ Len(cloud.points[i].coordinates) = args.dimension
        /\ calls = 0 =>
               \A i \in 1 .. args.point_count :
                   \A j \in 1 .. args.dimension :
                       cloud.points[i].coordinates[j]
                           = Float(args.raw[(i - 1) * args.dimension + j])
        /\ RanNormalise /\ err = "none" =>
               \E k \in 2 .. Len(before) :
                   \A i \in DOMAIN cloud.points :
                       \A j \in 1 .. args.dimension :
                           cloud.points[i].coordinates[j]
                               = FDiv(FSub(before[i].coordinates[j],
                                           before[1].coordinates[j]),
                                      distance(before[k], before[1]).val)
        /\ RanNormalise /\ err # "none" => cloud.points = before

C7_Witness ==
    /\ cloud # NoCloud
    /\ op = "normalise"
    /\ calls = 2
    /\ err = "none"
    /\ args.dimension = 2
    /\ args.point_count = 3
    /\ Finite(cloud.points)
    /\ args.raw[1] # 0

\* The case of C8: a second or later normalise just ran on a cloud that was
\* built from two or more points, not all identical.
C8_Case ==
    /\ op = "normalise"
    /\ calls >= 2
    /\ args.point_count >= 2
    /\ ~AllIdentical(OriginalPoints)

(***************************************************************************)
(* C8.  As claimed: a second normalise changes the coordinates the first   *)
(* one produced, for a cloud of at least two points not all identical.     *)
(***************************************************************************)
C8_SecondCallChanges == C8_Case => ~SamePoints(cloud.points, before)

\* C8 as amended: a second normalise succeeds and leaves every coordinate
\* the first one produced as it is (point 0 is already the zero vector and
\* the largest distance from it is already 1).
C8_SecondCallKeeps ==
    C8_Case => err = "none" /\ SamePoints(cloud.points, before)

C8_Witness ==
    /\ C8_Case
    /\ calls = 2
    /\ args.raw[1] # 0
    /\ args.point_count = 3
    /\ MaxSq(before) = 5

(***************************************************************************)
(* C9.  As claimed: for every cloud of at least two points, normalise of   *)
(* src/point_tools (search over all points, that file's distance) gives    *)
(* the same points as normalise of src/modules (search over points[1:]).   *)
(* Stated for the clouds whose points are not all identical, where neither *)
(* version divides zero by zero.                                           *)
(***************************************************************************)
C9_SearchRangesAgree ==
    calls = 1 /\ ShapeOK /\ op \in {"new", "normalise"}
            /\ args.point_count >= 2 /\ ~AllIdentical(OriginalPoints) =>
        /\ pt_err = err
        /\ err = "none" => SamePoints(pt_cloud.points, cloud.points)

(***************************************************************************)
(* The distance function called on two points, or on one.                  *)
(***************************************************************************)
MaxPointDim == 4

DistPoints ==
    {PointOf(c) : c \in UNION {[1 .. k -> Coords] : k \in 1 .. MaxPointDim}}

\* distance(a, b)
Distance ==
    /\ dist_op = "idle"
    /\ \E a \in DistPoints, b \in DistPoints :
        /\ dist_a' = a
        /\ dist_b' = b
        /\ dist_res' = distance(a, b)
    /\ dist_op' = "distance"
    /\ UNCHANGED <<cloudVars, csvVars, loopVars>>

\* distance(a)
DistanceDefault ==
    /\ dist_op = "idle"
    /\ \E a \in DistPoints :
        /\ dist_a' = a
        /\ dist_b' = Origin(DefaultDimension)
        /\ dist_res' = distance_default(a)
    /\ dist_op' = "distance_default"
    /\ UNCHANGED <<cloudVars, csvVars, loopVars>>

NextDist == Distance \/ DistanceDefault

SpecDist == Init /\ [][NextDist]_vars

(***************************************************************************)
(* C4.  As claimed: distance(a, b) raises whenever the two dimensions      *)
(* differ, whether b is the shorter or the longer, and returns a number    *)
(* only when they are equal.                                               *)
(***************************************************************************)
C4_MismatchRaises ==
    dist_op = "distance" =>
        /\ dist_a.dimension # dist_b.dimension => dist_res.err # "none"
        /\ dist_a.dimension = dist_b.dimension => dist_res.err = "none"

(***************************************************************************)
(* C5.  As claimed: distance(a) succeeds for a point of every dimension    *)
(* and is the distance from a to the zero vector of a's own dimension.     *)
(***************************************************************************)
C5_DefaultIsOwnOrigin ==
    dist_op = "distance_default" =>
        /\ dist_res.err = "none"
        /\ DSame(dist_res.val, distance(dist_a, Origin(dist_a.dimension)).val)

(***************************************************************************)
(* Delimited text.  A string is a sequence of characters.  The floats of   *)
(* this part are tenths (m / 10, held as m / sqrt(100)) and integers; str  *)
(* renders them as Python does, "-1.0", "0.5", "12.0", and float parses    *)
(* what Python's float accepts over the characters in use: surrounding     *)
(* blanks, a sign, digits, a point, digits.                                *)
(***************************************************************************)
MaxCsvLen == 4

\* The coordinates of the clouds written out, in tenths.
CsvCoords == {-10, 0, 5, 120}

Delimiters ==
    { <<",">>, <<";">>, <<" ">>, <<",", " ">>, <<>>,
      <<".">>, <<"-">>, <<"0">>, <<".", "0">> }

DigitChars == <<"0", "1", "2", "3", "4", "5", "6", "7", "8", "9">>

RECURSIVE Digits(_)
Digits(n) ==
    IF n < 10 THEN <<DigitChars[n + 1]>>
    ELSE Digits(n \div 10) \o <<DigitChars[(n % 10) + 1]>>

Abs(n) == IF n < 0 THEN -n ELSE n

\* str(coord) for a float that is a whole number of tenths.
str_float(x) ==
    LET m == CASE x.k = "fin" /\ x.r = 100 -> x.n
               [] x.k = "fin" /\ x.r = 1 -> 10 * x.n
    IN  (IF m < 0 THEN <<"-">> ELSE <<>>)
            \o Digits(Abs(m) \div 10) \o <<".">> \o Digits(Abs(m) % 10)

RECURSIVE str_join(_, _)
str_join(sep, tokens) ==
    IF tokens = <<>> THEN <<>>
    ELSE IF Len(tokens) = 1 THEN tokens[1]
    ELSE tokens[1] \o sep \o str_join(sep, Tail(tokens))

\* line.split(sep) for a non-empty sep: cut at the occurrences of sep, found
\* from the left and not overlapping.
RECURSIVE str_split(_, _)
str_split(s, sep) ==
    LET occ == {i \in 1 .. Len(s) :
                   /\ i + Len(sep) - 1 <= Len(s)
                   /\ SubSeq(s, i, i + Len(sep) - 1) = sep}
    IN  IF occ = {} THEN <<s>>
        ELSE LET i == CHOOSE x \in occ : \A y \in occ : x <= y
             IN  <<SubSeq(s, 1, i - 1)>>
                     \o str_split(SubSeq(s, i + Len(sep), Len(s)), sep)

RECURSIVE strip(_)
strip(s) ==
    IF s = <<>> THEN s
    ELSE IF Head(s) = " " THEN strip(Tail(s))
    ELSE IF s[Len(s)] = " " THEN strip(SubSeq(s, 1, Len(s) - 1))
    ELSE s

IsDigit(c) == \E d \in 1 .. 10 : DigitChars[d] = c

DigitValue(c) == (CHOOSE d \in 1 .. 10 : DigitChars[d] = c) - 1

RECURSIVE ValueOf(_)
ValueOf(digits) ==
    IF digits = <<>> THEN 0
    ELSE 10 * ValueOf(SubSeq(digits, 1, Len(digits) - 1))
             + DigitValue(digits[Len(digits)])

RECURSIVE Pow10(_)
Pow10(k) == IF k = 0 THEN 1 ELSE 10 * Pow10(k - 1)

\* float(token): the value, or ValueError.
float(token) ==
    LET t == strip(token)
        signed == t # <<>> /\ t[1] \in {"+", "-"}
        body == IF signed THEN Tail(t) ELSE t
        dots == {i \in 1 .. Len(body) : body[i] = "."}
        dot == IF dots = {} THEN Len(body) + 1 ELSE CHOOSE i \in dots : TRUE
        whole == SubSeq(body, 1, dot - 1)
        frac == SubSeq(body, dot + 1, Len(body))
        wellformed ==
            /\ Cardinality(dots) <= 1
            /\ \A i \in 1 .. Len(whole) : IsDigit(whole[i])
            /\ \A i \in 1 .. Len(frac) : IsDigit(frac[i])
            /\ Len(whole) + Len(frac) >= 1
        magnitude == ValueOf(whole) * Pow10(Len(frac)) + ValueOf(frac)
    IN  IF ~wellformed THEN [err |-> "ValueError:float", val |-> NaN]
        ELSE [err |-> "none",
              val |-> Fin(IF signed /\ t[1] = "-" THEN -magnitude ELSE magnitude,
                          Pow10(2 * Len(frac)))]

\* [coord for point in self.points for coord in point.coordinates]
RECURSIVE flatten(_)
flatten(points) ==
    IF points = <<>> THEN <<>>
    ELSE Head(points).coordinates \o flatten(Tail(points))

\* A csv_repr that ignores its delimiter and writes commas.
csv_repr_comma(self, delim) ==
    LET coords == flatten(self.points)
    IN  str_join(<<",">>, [i \in 1 .. Len(coords) |-> str_float(coords[i])])

\* PointCloud.csv_repr
csv_repr(self, delim) ==
    LET coords == flatten(self.points)
    IN  str_join(delim, [i \in 1 .. Len(coords) |-> str_float(coords[i])])

\* PointCloud.from_csv_line
from_csv_line(text, delim, dimension, point_count, norm) ==
    IF delim = <<>>
    THEN [err |-> "ValueError:empty separator", cloud |-> NoCloud]
    ELSE LET tokens == str_split(text, delim)
             parsed == [i \in 1 .. Len(tokens) |-> float(tokens[i])]
         IN  IF \E i \in DOMAIN parsed : parsed[i].err # "none"
             THEN [err |-> "ValueError:float", cloud |-> NoCloud]
             ELSE PointCloud__init__([i \in DOMAIN parsed |-> parsed[i].val],
                                     dimension, point_count, norm)

Tenths(raw) == [i \in 1 .. Len(raw) |-> Fin(raw[i], 100)]

\* P = PointCloud(raw, dimension, point_count, normalise=False)
CsvNew ==
    /\ op = "idle"
    /\ \E d \in 1 .. MaxDim, n \in 1 .. MaxCount :
        /\ d * n <= MaxCsvLen
        /\ \E raw \in [1 .. d * n -> CsvCoords] :
            LET r == PointCloud__init__(Tenths(raw), d, n, FALSE)
            IN  /\ args' = [raw |-> raw, dimension |-> d, point_count |-> n,
                            normalise |-> FALSE]
                /\ cloud' = r.cloud
                /\ err' = r.err
    /\ op' = "new"
    /\ UNCHANGED <<before, calls, pt_cloud, pt_err, csvVars, distVars, loopVars>>

\* P.csv_repr(delimiter)
CsvRepr ==
    /\ op = "new"
    /\ cloud # NoCloud
    /\ \E delim \in Delimiters :
        /\ delimiter' = delim
        /\ line' = csv_repr(cloud, delim)
    /\ op' = "csv_repr"
    /\ UNCHANGED <<args, cloud, err, before, calls, pt_cloud, pt_err, readback,
                   distVars, loopVars>>

\* PointCloud.from_csv_line(line, delimiter, P.dimension, P.point_count, False)
FromCsvLine ==
    /\ op = "csv_repr"
    /\ readback' = from_csv_line(line, delimiter, cloud.dimension,
                                 cloud.point_count, FALSE)
    /\ op' = "from_csv_line"
    /\ UNCHANGED <<args, cloud, err, before, calls, pt_cloud, pt_err,
                   delimiter, line, distVars, loopVars>>

NextCsv == CsvNew \/ CsvRepr \/ FromCsvLine

SpecCsv == Init /\ [][NextCsv]_vars

(***************************************************************************)
(* C3.  As claimed: for a cloud built with normalise false and any         *)
(* delimiter string, reading back what csv_repr wrote, with the same       *)
(* delimiter, dimension and point_count, succeeds and gives the same       *)
(* coordinates in the same order.                                          *)
(***************************************************************************)
C3_RoundTrip ==
    op = "from_csv_line" =>
        /\ readback.err = "none"
        /\ SamePoints(readback.cloud.points, cloud.points)

\* The characters str gives a float: digits, the point, the sign, and those
\* of an exponent, of inf and of nan.
FloatChars ==
    {DigitChars[d] : d \in 1 .. 10} \cup {".", "-", "+", "e", "i", "n", "f", "a"}

SafeDelimiter(delim) ==
    delim # <<>> /\ \A i \in 1 .. Len(delim) : delim[i] \notin FloatChars

\* C3 as amended: the round trip holds for every delimiter that is not
\* empty and holds no character a rendered float can hold.
C3_RoundTripSafeDelimiter ==
    op = "from_csv_line" /\ SafeDelimiter(delimiter) =>
        /\ readback.err = "none"
        /\ readback.cloud.dimension = cloud.dimension
        /\ readback.cloud.point_count = cloud.point_count
        /\ SamePoints(readback.cloud.points, cloud.points)

C3_Witness ==
    /\ op = "from_csv_line"
    /\ delimiter = <<",", " ">>
    /\ args.raw = <<-10, 5, 120, 0>>
    /\ args.dimension = 2
    /\ line = <<"-", "1", ".", "0", ",", " ", "0", ".", "5", ",", " ",
                "1", "2", ".", "0", ",", " ", "0", ".", "0">>
    /\ readback.err = "none"
    /\ readback.cloud.points[1].coordinates[1] = Fin(-10, 100)

(***************************************************************************)
(* main() of src/modules/point_tool_testing.py, from the state after       *)
(* cm = CameraManager().  The camera and the hand tracker are the          *)
(* environment: each process_hands sees no hand, or one of two hands.      *)
(***************************************************************************)
MaxIterations == 3

\* from_mphands's default dimension and point_count.
MphandsDimension == 3
MphandsPointCount == 21

Keys == {"none", "q", "p", "x"}

\* A spread hand and a hand whose landmarks all coincide, as (x, y, z).
SpreadHand == [i \in 1 .. MphandsPointCount |-> <<i % 3, (i \div 3) % 2, 2>>]
ClosedHand == [i \in 1 .. MphandsPointCount |-> <<2, 0, -1>>]

\* What output.hand_landmarks[0] may be; <<>> stands for hand_landmarks None.
Landmarks == {<<>>, SpreadHand, ClosedHand}

RECURSIVE triples(_)
triples(hand_landmarks) ==
    IF hand_landmarks = <<>> THEN <<>>
    ELSE Head(hand_landmarks) \o triples(Tail(hand_landmarks))

\* PointCloud.from_mphands with its defaults
from_mphands(hand_landmarks) ==
    PointCloud__init__(Floats(triples(hand_landmarks)),
                       MphandsDimension, MphandsPointCount, TRUE)

InitLoop ==
    /\ CloudIdle /\ CsvIdle /\ DistIdle
    /\ loop_pc = "process_hands"
    /\ cm_bound = TRUE
    /\ cap_released = FALSE
    /\ output = <<>>
    /\ point_cloud = NoCloud
    /\ keypress = "none"
    /\ iteration = 0

\* output = cm.process_hands(): UnboundLocalError when cm was deleted.
ProcessHands ==
    /\ loop_pc = "process_hands"
    /\ iteration < MaxIterations
    /\ iteration' = iteration + 1
    /\ IF cm_bound
       THEN /\ \E lm \in Landmarks : output' = lm
            /\ loop_pc' = "imshow"
       ELSE /\ loop_pc' = "raised"
            /\ UNCHANGED output
    /\ UNCHANGED <<cm_bound, cap_released, point_cloud, keypress,
                   cloudVars, csvVars, distVars>>

\* cv2.imshow, and point_cloud = PointCloud.from_mphands(...) when a hand
\* was found.
ImshowAndCloud ==
    /\ loop_pc = "imshow"
    /\ IF output # <<>>
       THEN LET r == from_mphands(output)
            IN  IF r.err = "none"
                THEN point_cloud' = r.cloud /\ loop_pc' = "waitKey"
                ELSE UNCHANGED point_cloud /\ loop_pc' = "raised"
       ELSE UNCHANGED point_cloud /\ loop_pc' = "waitKey"
    /\ UNCHANGED <<cm_bound, cap_released, output, keypress, iteration,
                   cloudVars, csvVars, distVars>>

\* keypress = cv2.waitKey(1), made a character or None.
WaitKey ==
    /\ loop_pc = "waitKey"
    /\ \E key \in Keys : keypress' = key
    /\ loop_pc' = "match"
    /\ UNCHANGED <<cm_bound, cap_released, output, point_cloud, iteration,
                   cloudVars, csvVars, distVars>>

\* match keypress: "q" returns, and the manager still bound is finalised;
\* "p" runs del cm, whose __del__ releases the capture device.
Match ==
    /\ loop_pc = "match"
    /\ IF keypress = "q"
       THEN /\ loop_pc' = "returned"
            /\ cm_bound' = FALSE
            /\ cap_released' = TRUE
       ELSE IF keypress = "p"
       THEN /\ loop_pc' = "process_hands"
            /\ cm_bound' = FALSE
            /\ cap_released' = TRUE
       ELSE /\ loop_pc' = "process_hands"
            /\ UNCHANGED <<cm_bound, cap_released>>
    /\ UNCHANGED <<output, point_cloud, keypress, iteration,
                   cloudVars, csvVars, distVars>>

NextLoop == ProcessHands \/ ImshowAndCloud \/ WaitKey \/ Match

SpecLoop == InitLoop /\ [][NextLoop]_vars

(***************************************************************************)
(* C10.  As claimed: every iteration calls process_hands on a manager      *)
(* that is bound and whose capture device is not released, no key makes    *)
(* an iteration fail, and the loop ends only by returning on "q".          *)
(***************************************************************************)
C10_LoopNeverFails ==
    /\ loop_pc = "process_hands" => cm_bound /\ ~cap_released
    /\ loop_pc # "raised"
    /\ loop_pc = "returned" => keypress = "q"

====
